---- MODULE Spec2Model ----
(***************************************************************************)
(* Model of the crawl job engine of the data-crawler service:              *)
(*   - the route layer (POST /jobs, PUT /jobs/:id/cancel) of               *)
(*     services/data-collection/crawler/src/index.js,                      *)
(*   - startCrawlJob / stopCrawlJob and the Crawler class of               *)
(*     services/data-collection/crawler/src/routes/healthRoutes.js.        *)
(*                                                                         *)
(* Node.js runs every handler to its next `await` without interruption, so *)
(* one action is the code between two awaits of one handler.  The while    *)
(* loop of processQueue is unrolled into one action per iteration; while   *)
(* the engine is inside that synchronous stretch (spc = "loop") no other   *)
(* handler may run (Yielded).                                              *)
(***************************************************************************)
EXTENDS Naturals, Integers, Sequences, FiniteSets

VARIABLES
    job,             \* the CrawlJob document as stored in MongoDB
    results,         \* the CrawlResult documents of the job, in save order
    activeCrawlers,  \* keys of the activeCrawlers map
    spc,             \* position of startCrawlJob / Crawler.start
    docStatus,       \* this.job.status of the engine's in-memory document
    docResultCount,  \* this.job.resultCount of the engine's document
    running,         \* Crawler.running
    browser,         \* Crawler.browser: "null", "open" or "closed"
    visitedUrls,     \* Crawler.visitedUrls
    queue,           \* Crawler.queue
    pagesProcessed,  \* Crawler.pagesProcessed
    pagesSuccessful, \* Crawler.pagesSuccessful
    pagesFailed,     \* Crawler.pagesFailed
    cur,             \* the entry processUrl is working on
    curOk,           \* processUrl is on its success path
    page,            \* processUrl's page is non-null
    cpc,             \* position of each cancel request
    cresp,           \* HTTP status answered to each cancel request
    stopLog,         \* branch stopCrawlJob took for each cancel request
    stopAt,          \* history: Len(results) at the first stop(), -1 before
    stopPc,          \* history: where start() was at the first stop()
    dropped,         \* history: number of entries skipped as already visited
    dequeued,        \* history: the entries handed to processUrl, in order
    sres,            \* how the promise of startCrawlJob has settled
    second,          \* the engine of a second startCrawlJob call for the job
    qpc,             \* position of the GET /jobs/:id/results request
    qreq,            \* its job id, page and limit
    qres             \* what it has read and what it answers

vars == <<job, results, activeCrawlers, spc, docStatus, docResultCount,
          running, browser, visitedUrls, queue, pagesProcessed,
          pagesSuccessful, pagesFailed, cur, curOk, page, cpc, cresp,
          stopLog, stopAt, stopPc, dropped, dequeued, sres, second,
          qpc, qreq, qres>>

engineVars == <<docStatus, docResultCount, running, browser, visitedUrls,
                queue, pagesProcessed, pagesSuccessful, pagesFailed, cur,
                curOk, page>>

cancelVars == <<cpc, cresp, stopLog>>

stopVars == <<stopAt, stopPc>>

histVars == <<stopAt, stopPc, dropped, dequeued>>

sideVars == <<second, qpc, qreq, qres>>

(***************************************************************************)
(* Bounds and program constants                                            *)
(***************************************************************************)
MaxCancels == 2
MaxReqDepth == 1
MaxReqPages == 2

DefaultDepth == 2
DefaultMaxPages == 100

JobId == 1
Cancels == 1..MaxCancels
Terminal == {"completed", "failed", "cancelled"}

(***************************************************************************)
(* The crawled site, as the browser reports it                             *)
(***************************************************************************)
SeedUrls == {"a", "e", "t"}

\* What page.goto gives for each URL: no response at all (navigation error
\* or timeout), or a response with its status code and whether its
\* content-type contains text/html
Response(u) ==
    CASE u = "a" -> [received |-> TRUE, status |-> 200, html |-> TRUE]
      [] u = "b" -> [received |-> TRUE, status |-> 200, html |-> TRUE]
      [] u = "c" -> [received |-> TRUE, status |-> 200, html |-> FALSE]
      [] u = "d" -> [received |-> TRUE, status |-> 200, html |-> TRUE]
      [] u = "e" -> [received |-> TRUE, status |-> 500, html |-> TRUE]
      [] u = "g" -> [received |-> TRUE, status |-> 204, html |-> TRUE]
      [] u = "t" -> [received |-> FALSE, status |-> 0, html |-> FALSE]
      [] OTHER   -> [received |-> TRUE, status |-> 200, html |-> TRUE]

Link(u, internal) == [url |-> u, isInternal |-> internal]

Links(u) ==
    CASE u = "a" -> <<Link("b", TRUE), Link("c", TRUE), Link("b", TRUE),
                      Link("x", FALSE)>>
      [] u = "b" -> <<Link("d", TRUE), Link("a", TRUE), Link("d", TRUE),
                      Link("g", TRUE)>>
      [] OTHER   -> <<>>

\* variant: every 2xx status code is taken
PageSucceedsAny2xx(u) ==
    /\ Response(u).received
    /\ Response(u).status \in 200..299
    /\ Response(u).html

\* processUrl reaches `new CrawlResult({... statusCode ...})` only so
PageSucceeds(u) ==
    /\ Response(u).received
    /\ Response(u).status = 200
    /\ Response(u).html

Entry(u, d, p) == [url |-> u, depth |-> d, parentUrl |-> p]
NoEntry == Entry("", 0, "")

\* The CrawlResult processUrl saves: `new CrawlResult({... html, statusCode
\* ...})` on its success path, `new CrawlResult({... error ...})` in its
\* catch block; 0 and "" stand for a field that is not set
Result(e, ok) ==
    [url |-> e.url, depth |-> e.depth, parentUrl |-> e.parentUrl, ok |-> ok,
     statusCode |-> IF ok THEN Response(e.url).status ELSE 0,
     html |-> IF ok THEN "html" ELSE "",
     error |-> IF ok THEN "" ELSE "message"]

NoJob ==
    [status |-> "none", url |-> "", depth |-> 0, maxPages |-> 0,
     processed |-> 0, successful |-> 0, failed |-> 0,
     resultCount |-> 0, error |-> ""]

\* A Crawler that was never constructed
NoEngine ==
    [pc |-> "idle", docStatus |-> "none", docResultCount |-> 0,
     running |-> FALSE, browser |-> "null", visitedUrls |-> {},
     queue |-> <<>>, pagesProcessed |-> 0, pagesSuccessful |-> 0,
     pagesFailed |-> 0, cur |-> NoEntry, curOk |-> FALSE]

NoQuery == [id |-> 0, page |-> 0, limit |-> 0]
NoAnswer == [status |-> 0, results |-> <<>>, total |-> 0, pages |-> 0]

\* No handler is inside a synchronous stretch
Yielded == spc # "loop"

Init ==
    /\ job = NoJob
    /\ results = <<>>
    /\ activeCrawlers = {}
    /\ spc = "idle"
    /\ docStatus = "none"
    /\ docResultCount = 0
    /\ running = FALSE
    /\ browser = "null"
    /\ visitedUrls = {}
    /\ queue = <<>>
    /\ pagesProcessed = 0
    /\ pagesSuccessful = 0
    /\ pagesFailed = 0
    /\ cur = NoEntry
    /\ curOk = FALSE
    /\ page = FALSE
    /\ cpc = [c \in Cancels |-> "idle"]
    /\ cresp = [c \in Cancels |-> 0]
    /\ stopLog = [c \in Cancels |-> "none"]
    /\ stopAt = -1
    /\ stopPc = "none"
    /\ dropped = 0
    /\ dequeued = <<>>
    /\ sres = "none"
    /\ second = NoEngine
    /\ qpc = "idle"
    /\ qreq = NoQuery
    /\ qres = NoAnswer

(***************************************************************************)
(* POST /api/crawler/jobs                                                  *)
(***************************************************************************)
\* `depth || 2`, `maxPages || 100`
OrDefault(v, dflt) == IF v = 0 THEN dflt ELSE v

\* newJob.save() has resolved; startCrawlJob runs to `await findById`
PostJobs(url, depth, maxPages) ==
    /\ spc = "idle"
    /\ job' = [NoJob EXCEPT !.status = "pending", !.url = url,
                            !.depth = OrDefault(depth, DefaultDepth),
                            !.maxPages = OrDefault(maxPages, DefaultMaxPages)]
    /\ spc' = "find"
    /\ sres' = "pending"
    /\ UNCHANGED <<sideVars, results, activeCrawlers, engineVars, cancelVars, histVars>>

(***************************************************************************)
(* startCrawlJob                                                           *)
(***************************************************************************)
\* variant: the status of the job is not looked at
StartFoundUnchecked ==
    /\ spc = "find"
    /\ spc' = "saveRunning"
    /\ docStatus' = "running"
    /\ UNCHANGED <<sres, sideVars, job, results, activeCrawlers, docResultCount,
                   running, browser, visitedUrls, queue, pagesProcessed,
                   pagesSuccessful, pagesFailed, cur, curOk, page,
                   cancelVars, histVars>>

\* variant: a job that is not pending makes startCrawlJob reject with a
\* typed error
StartFoundTyped ==
    /\ spc = "find"
    /\ IF job.status # "pending"
          THEN /\ spc' = "done"
               /\ sres' = "InvalidState"
               /\ UNCHANGED docStatus
          ELSE /\ spc' = "saveRunning"
               /\ docStatus' = "running"
               /\ UNCHANGED sres
    /\ UNCHANGED <<sideVars, job, results, activeCrawlers, docResultCount, running,
                   browser, visitedUrls, queue, pagesProcessed,
                   pagesSuccessful, pagesFailed, cur, curOk, page,
                   cancelVars, histVars>>

\* findById resolved: `if (job.status !== 'pending') return`, else
\* job.status = 'running' and `await job.save()`
StartFound ==
    /\ spc = "find"
    /\ IF job.status # "pending"
          THEN /\ spc' = "done"
               /\ sres' = "undefined"
               /\ UNCHANGED docStatus
          ELSE /\ spc' = "saveRunning"
               /\ docStatus' = "running"
               /\ UNCHANGED sres
    /\ UNCHANGED <<sideVars, job, results, activeCrawlers, docResultCount, running,
                   browser, visitedUrls, queue, pagesProcessed,
                   pagesSuccessful, pagesFailed, cur, curOk, page,
                   cancelVars, histVars>>

\* job.save() resolved: the engine is registered and start() runs to
\* `await puppeteer.launch`
StartSaved ==
    /\ spc = "saveRunning"
    /\ job' = [job EXCEPT !.status = docStatus]
    /\ activeCrawlers' = activeCrawlers \cup {JobId}
    /\ running' = TRUE
    /\ spc' = "launch"
    /\ UNCHANGED <<sres, sideVars, results, docStatus, docResultCount, browser, visitedUrls,
                   queue, pagesProcessed, pagesSuccessful, pagesFailed, cur,
                   curOk, page, cancelVars, histVars>>

(***************************************************************************)
(* Crawler.start                                                           *)
(***************************************************************************)
\* puppeteer.launch resolved: the seed is queued and processQueue entered
LaunchDone ==
    /\ spc = "launch"
    /\ browser' = "open"
    /\ queue' = Append(queue, Entry(job.url, 0, "null"))
    /\ spc' = "loop"
    /\ UNCHANGED <<sres, sideVars, job, results, activeCrawlers, docStatus, docResultCount,
                   running, visitedUrls, pagesProcessed, pagesSuccessful,
                   pagesFailed, cur, curOk, page, cancelVars, histVars>>

(***************************************************************************)
(* Crawler.processQueue                                                    *)
(***************************************************************************)
\* variant: the page limit compared with <=
LoopConditionOffByOne ==
    /\ Len(queue) > 0
    /\ running
    /\ pagesProcessed <= job.maxPages

\* variant: the running flag is not part of the condition
LoopConditionNoRunning ==
    /\ Len(queue) > 0
    /\ pagesProcessed < job.maxPages

LoopCondition ==
    /\ Len(queue) > 0
    /\ running
    /\ pagesProcessed < job.maxPages

\* variant: the visited check is missing
AlreadyVisitedNever(u) == FALSE

\* `this.visitedUrls.has(url)`
AlreadyVisited(u) == u \in visitedUrls

\* variant: `continue` without the shift()
SkipVisitedKeepsEntry ==
    /\ spc = "loop"
    /\ LoopCondition
    /\ AlreadyVisited(Head(queue).url)
    /\ UNCHANGED vars

\* `if (this.visitedUrls.has(url)) continue`
SkipVisited ==
    /\ spc = "loop"
    /\ LoopCondition
    /\ AlreadyVisited(Head(queue).url)
    /\ queue' = Tail(queue)
    /\ dropped' = dropped + 1
    /\ UNCHANGED <<sres, sideVars, job, results, activeCrawlers, spc, docStatus,
                   docResultCount, running, browser, visitedUrls,
                   pagesProcessed, pagesSuccessful, pagesFailed, cur, curOk,
                   page, cancelVars, stopVars, dequeued>>

\* queue.shift(), visitedUrls.add, pagesProcessed++, processUrl runs to its
\* first await on the browser
Dequeue ==
    /\ spc = "loop"
    /\ LoopCondition
    /\ ~AlreadyVisited(Head(queue).url)
    /\ cur' = Head(queue)
    /\ queue' = Tail(queue)
    /\ visitedUrls' = visitedUrls \cup {Head(queue).url}
    /\ pagesProcessed' = pagesProcessed + 1
    /\ curOk' = FALSE
    /\ page' = FALSE
    /\ spc' = "fetch"
    /\ dequeued' = Append(dequeued, Head(queue))
    /\ UNCHANGED <<sres, sideVars, job, results, activeCrawlers, docStatus, docResultCount,
                   running, browser, pagesSuccessful, pagesFailed,
                   cancelVars, stopVars, dropped>>

\* variant: isInternal is not looked at
RECURSIVE PushedAll(_, _, _)
PushedAll(links, depth, url) ==
    IF links = <<>> THEN <<>>
    ELSE LET l == Head(links)
             rest == PushedAll(Tail(links), depth, url)
         IN IF l.url \notin visitedUrls
               THEN <<Entry(l.url, depth + 1, url)>> \o rest
               ELSE rest

\* variant: the entry names itself as its parent
RECURSIVE PushedSelfParent(_, _, _)
PushedSelfParent(links, depth, url) ==
    IF links = <<>> THEN <<>>
    ELSE LET l == Head(links)
             rest == PushedSelfParent(Tail(links), depth, url)
         IN IF l.isInternal /\ l.url \notin visitedUrls
               THEN <<Entry(l.url, depth + 1, l.url)>> \o rest
               ELSE rest

\* the links of a successful page that the loop pushes
RECURSIVE Pushed(_, _, _)
Pushed(links, depth, url) ==
    IF links = <<>> THEN <<>>
    ELSE LET l == Head(links)
             rest == Pushed(Tail(links), depth, url)
         IN IF l.isInternal /\ l.url \notin visitedUrls
               THEN <<Entry(l.url, depth + 1, url)>> \o rest
               ELSE rest

\* variant: the depth compared with <=
ExpandLinksOffByOne(q, e) ==
    IF e.depth <= job.depth THEN q \o Pushed(Links(e.url), e.depth, e.url)
    ELSE q

\* variant: unshift instead of push
ExpandLinksFront(q, e) ==
    IF e.depth < job.depth THEN Pushed(Links(e.url), e.depth, e.url) \o q
    ELSE q

\* `if (depth < this.job.depth) for (const link of result.links) ...push`
ExpandLinks(q, e) ==
    IF e.depth < job.depth THEN q \o Pushed(Links(e.url), e.depth, e.url)
    ELSE q

\* variant: a failed page ends the traversal
AfterProcessUrlBreaks(ok) ==
    /\ IF ok
          THEN /\ pagesSuccessful' = pagesSuccessful + 1
               /\ queue' = ExpandLinks(queue, cur)
               /\ UNCHANGED pagesFailed
          ELSE /\ pagesFailed' = pagesFailed + 1
               /\ queue' = <<>>
               /\ UNCHANGED pagesSuccessful
    /\ spc' = "progress"

\* processUrl has returned (ok) or has returned null / thrown (~ok); the
\* loop body runs to `await this.job.updateProgress`
AfterProcessUrl(ok) ==
    /\ IF ok
          THEN /\ pagesSuccessful' = pagesSuccessful + 1
               /\ queue' = ExpandLinks(queue, cur)
               /\ UNCHANGED pagesFailed
          ELSE /\ pagesFailed' = pagesFailed + 1
               /\ UNCHANGED <<pagesSuccessful, queue>>
    /\ spc' = "progress"

\* CrawlJob.updateProgress: the three counters are stored
UpdateProgress(j, processed, successful, failed) ==
    [j EXCEPT !.processed = processed, !.successful = successful,
              !.failed = failed]

\* updateProgress resolved: back to the while condition
ProgressDone ==
    /\ spc = "progress"
    /\ job' = UpdateProgress(job, pagesProcessed, pagesSuccessful, pagesFailed)
    /\ spc' = "loop"
    /\ UNCHANGED <<sres, sideVars, results, activeCrawlers, engineVars, cancelVars, histVars>>

(***************************************************************************)
(* Crawler.processUrl                                                      *)
(***************************************************************************)
\* What the awaits on the browser (newPage .. evaluate) can give: on an open
\* browser the page's own outcome; once stop() has closed the browser the
\* pending call may also reject
FetchOutcomes(u) ==
    IF browser = "closed" THEN {PageSucceeds(u), FALSE} ELSE {PageSucceeds(u)}

\* the browser calls of processUrl are over: on success `await result.save()`,
\* otherwise the catch block and `await errorResult.save()`
FetchDone ==
    /\ spc = "fetch"
    /\ \E ok \in FetchOutcomes(cur.url) :
         /\ curOk' = ok
         /\ \E pg \in (IF ok \/ browser # "closed" THEN {TRUE} ELSE BOOLEAN) :
              page' = pg
    /\ spc' = "saveResult"
    /\ UNCHANGED <<sres, sideVars, job, results, activeCrawlers, docStatus, docResultCount,
                   running, browser, visitedUrls, queue, pagesProcessed,
                   pagesSuccessful, pagesFailed, cur, cancelVars, histVars>>

\* variant: the catch block of processUrl stores no error result
SaveResultDoneDropsFailed ==
    /\ spc = "saveResult"
    /\ results' = IF curOk THEN Append(results, Result(cur, curOk))
                  ELSE results
    /\ IF page
          THEN /\ spc' = "pageClose"
               /\ UNCHANGED <<queue, pagesSuccessful, pagesFailed>>
          ELSE AfterProcessUrl(FALSE)
    /\ UNCHANGED <<sres, sideVars, job, activeCrawlers, docStatus, docResultCount,
                   running, browser, visitedUrls, pagesProcessed, cur, curOk,
                   page, cancelVars, histVars>>

\* result.save() / errorResult.save() resolved; the finally block awaits
\* page.close() when there is a page
SaveResultDone ==
    /\ spc = "saveResult"
    /\ results' = Append(results, Result(cur, curOk))
    /\ IF page
          THEN /\ spc' = "pageClose"
               /\ UNCHANGED <<queue, pagesSuccessful, pagesFailed>>
          ELSE AfterProcessUrl(FALSE)
    /\ UNCHANGED <<sres, sideVars, job, activeCrawlers, docStatus, docResultCount, running,
                   browser, visitedUrls, pagesProcessed, cur, curOk, page,
                   cancelVars, histVars>>

\* page.close() resolved, or rejected because the browser is gone: then
\* processUrl throws into the catch block of processQueue
PageCloseDone ==
    /\ spc = "pageClose"
    /\ \E threw \in (IF browser = "closed" THEN BOOLEAN ELSE {FALSE}) :
         AfterProcessUrl(curOk /\ ~threw)
    /\ UNCHANGED <<sres, sideVars, job, results, activeCrawlers, docStatus, docResultCount,
                   running, browser, visitedUrls, pagesProcessed, cur, curOk,
                   page, cancelVars, histVars>>

(***************************************************************************)
(* Crawler.start, after processQueue                                       *)
(***************************************************************************)
\* the while condition is false: `await this.browser.close()`
LoopExit ==
    /\ spc = "loop"
    /\ ~LoopCondition
    /\ browser' = "closed"
    /\ spc' = "closeBrowser"
    /\ UNCHANGED <<sres, sideVars, job, results, activeCrawlers, docStatus, docResultCount,
                   running, visitedUrls, queue, pagesProcessed,
                   pagesSuccessful, pagesFailed, cur, curOk, page,
                   cancelVars, histVars>>

\* variant: the two branches are exchanged
FinalStatusInverted == IF running THEN "cancelled" ELSE "completed"

\* variant: the running flag is not consulted
FinalStatusIgnoresStop == "completed"

\* `if (this.running) completed else cancelled`
FinalStatus == IF running THEN "completed" ELSE "cancelled"

\* browser.close() resolved: the status is chosen, countDocuments awaited
CloseBrowserDone ==
    /\ spc = "closeBrowser"
    /\ docStatus' = FinalStatus
    /\ spc' = "count"
    /\ UNCHANGED <<sres, sideVars, job, results, activeCrawlers, docResultCount, running,
                   browser, visitedUrls, queue, pagesProcessed,
                   pagesSuccessful, pagesFailed, cur, curOk, page,
                   cancelVars, histVars>>

\* countDocuments resolved: `await this.job.save()`
CountDone ==
    /\ spc = "count"
    /\ docResultCount' = Len(results)
    /\ spc' = "saveFinal"
    /\ UNCHANGED <<sres, sideVars, job, results, activeCrawlers, docStatus, running, browser,
                   visitedUrls, queue, pagesProcessed, pagesSuccessful,
                   pagesFailed, cur, curOk, page, cancelVars, histVars>>

\* the final job.save() resolved; start() and startCrawlJob return
SaveFinalDone ==
    /\ spc = "saveFinal"
    /\ job' = [job EXCEPT !.status = docStatus,
                          !.resultCount = docResultCount]
    /\ spc' = "done"
    /\ sres' = "undefined"
    /\ UNCHANGED <<sideVars, results, activeCrawlers, engineVars, cancelVars, histVars>>

(***************************************************************************)
(* Crawler.stop and stopCrawlJob                                           *)
(***************************************************************************)
\* Crawler.stop up to its await: the flag is cleared and, when there is a
\* browser, browser.close() is called
Stop ==
    /\ running' = FALSE
    /\ browser' = IF browser = "null" THEN "null" ELSE "closed"
    /\ stopAt' = IF stopAt = -1 THEN Len(results) ELSE stopAt
    /\ stopPc' = IF stopAt = -1 THEN spc ELSE stopPc
    /\ UNCHANGED <<dropped, dequeued>>

\* variant: no `if (crawler)` and no try/catch, so stop() of undefined rejects
StopCrawlJobUnchecked(c) ==
    IF JobId \in activeCrawlers
       THEN /\ Stop
            /\ stopLog' = [stopLog EXCEPT ![c] = "stopped"]
            /\ IF browser = "null"
                  THEN /\ activeCrawlers' = activeCrawlers \ {JobId}
                       /\ cpc' = [cpc EXCEPT ![c] = "done"]
                  ELSE /\ cpc' = [cpc EXCEPT ![c] = "stopping"]
                       /\ UNCHANGED activeCrawlers
       ELSE /\ stopLog' = [stopLog EXCEPT ![c] = "rejected"]
            /\ cpc' = [cpc EXCEPT ![c] = "done"]
            /\ UNCHANGED <<activeCrawlers, running, browser, histVars>>

\* stopCrawlJob up to its first await.  With a live engine stop() is called;
\* when stop() had no browser to close, the delete follows without another
\* handler in between.  Without a live engine only the warning is logged.
StopCrawlJob(c) ==
    IF JobId \in activeCrawlers
       THEN /\ Stop
            /\ stopLog' = [stopLog EXCEPT ![c] = "stopped"]
            /\ IF browser = "null"
                  THEN /\ activeCrawlers' = activeCrawlers \ {JobId}
                       /\ cpc' = [cpc EXCEPT ![c] = "done"]
                  ELSE /\ cpc' = [cpc EXCEPT ![c] = "stopping"]
                       /\ UNCHANGED activeCrawlers
       ELSE /\ stopLog' = [stopLog EXCEPT ![c] = "noop"]
            /\ cpc' = [cpc EXCEPT ![c] = "done"]
            /\ UNCHANGED <<activeCrawlers, running, browser, histVars>>

\* the browser.close() of stop() resolved: activeCrawlers.delete
StopClosed(c) ==
    /\ Yielded
    /\ cpc[c] = "stopping"
    /\ activeCrawlers' = activeCrawlers \ {JobId}
    /\ cpc' = [cpc EXCEPT ![c] = "done"]
    /\ UNCHANGED <<sres, sideVars, job, results, spc, engineVars, cresp, stopLog, histVars>>

(***************************************************************************)
(* PUT /api/crawler/jobs/:id/cancel                                        *)
(***************************************************************************)
\* the request arrives: `await CrawlJob.findById`
CancelRequest(c) ==
    /\ Yielded
    /\ cpc[c] = "idle"
    /\ cpc' = [cpc EXCEPT ![c] = "find"]
    /\ UNCHANGED <<sres, sideVars, job, results, activeCrawlers, spc, engineVars, cresp,
                   stopLog, histVars>>

\* findById resolved: 404, 400, or job.status = 'cancelled' and
\* `await job.save()`
CancelFound(c) ==
    /\ Yielded
    /\ cpc[c] = "find"
    /\ IF job.status = "none"
          THEN /\ cresp' = [cresp EXCEPT ![c] = 404]
               /\ cpc' = [cpc EXCEPT ![c] = "done"]
          ELSE IF job.status \in Terminal
          THEN /\ cresp' = [cresp EXCEPT ![c] = 400]
               /\ cpc' = [cpc EXCEPT ![c] = "done"]
          ELSE /\ cpc' = [cpc EXCEPT ![c] = "save"]
               /\ UNCHANGED cresp
    /\ UNCHANGED <<sres, sideVars, job, results, activeCrawlers, spc, engineVars, stopLog,
                   histVars>>

\* job.save() resolved: stopCrawlJob is called (not awaited) and 200 answered
CancelSaved(c) ==
    /\ Yielded
    /\ cpc[c] = "save"
    /\ job' = [job EXCEPT !.status = "cancelled"]
    /\ StopCrawlJob(c)
    /\ cresp' = [cresp EXCEPT ![c] = 200]
    /\ UNCHANGED <<sres, sideVars, results, spc, docStatus, docResultCount, visitedUrls,
                   queue, pagesProcessed, pagesSuccessful, pagesFailed, cur,
                   curOk, page>>

(***************************************************************************)
(* GET /api/crawler/jobs/:id/results and getJobResults                     *)
(***************************************************************************)
MaxQueryPage == 3
MaxQueryLimit == 2
UnknownId == 2

\* `CrawlResult.find({ jobId })`, `CrawlResult.countDocuments({ jobId })`
ResultsOf(id) == IF id = JobId THEN results ELSE <<>>

\* `.sort({ createdAt: -1 })`: the latest save first
NewestFirst(seq) == [i \in 1..Len(seq) |-> seq[Len(seq) + 1 - i]]

\* variant: the first page is skipped too
SkipOffByOne(pg, limit) == pg * limit

\* `const skip = (page - 1) * limit`
Skip(pg, limit) == (pg - 1) * limit

\* `.skip(skip).limit(limit)`
SkipLimit(seq, skip, limit) ==
    SubSeq(seq, skip + 1,
           IF skip + limit < Len(seq) THEN skip + limit ELSE Len(seq))

\* `.select('-html')`
Select(r) == [f \in (DOMAIN r) \ {"html"} |-> r[f]]

\* the find chain of getJobResults
FindResults(id, pg, limit) ==
    LET found == SkipLimit(NewestFirst(ResultsOf(id)), Skip(pg, limit), limit)
    IN [i \in 1..Len(found) |-> Select(found[i])]

\* `Math.ceil(total / limit)`
Ceil(total, limit) == (total + limit - 1) \div limit

\* the request arrives: `await CrawlJob.findById`
GetResultsRequest(id, pg, limit) ==
    /\ Yielded
    /\ qpc = "idle"
    /\ qpc' = "findJob"
    /\ qreq' = [id |-> id, page |-> pg, limit |-> limit]
    /\ UNCHANGED <<sres, second, qres, job, results,
                   activeCrawlers, spc, engineVars, cancelVars, histVars>>

\* variant: no `if (!job)` in the route
GetResultsJobFoundUnchecked ==
    /\ Yielded
    /\ qpc = "findJob"
    /\ qpc' = "find"
    /\ UNCHANGED <<sres, second, qreq, qres, job, results,
                   activeCrawlers, spc, engineVars, cancelVars, histVars>>

\* findById resolved: 404 for an unknown job, else getJobResults runs to
\* `await CrawlResult.find(...)`
GetResultsJobFound ==
    /\ Yielded
    /\ qpc = "findJob"
    /\ IF qreq.id # JobId \/ job.status = "none"
          THEN /\ qres' = [qres EXCEPT !.status = 404]
               /\ qpc' = "done"
          ELSE /\ qpc' = "find"
               /\ UNCHANGED qres
    /\ UNCHANGED <<sres, second, qreq, job, results,
                   activeCrawlers, spc, engineVars, cancelVars, histVars>>

\* the find chain resolved: `await CrawlResult.countDocuments`
GetResultsFound ==
    /\ Yielded
    /\ qpc = "find"
    /\ qres' = [qres EXCEPT
                   !.results = FindResults(qreq.id, qreq.page, qreq.limit)]
    /\ qpc' = "count"
    /\ UNCHANGED <<sres, second, qreq, job, results,
                   activeCrawlers, spc, engineVars, cancelVars, histVars>>

\* countDocuments resolved: getJobResults returns and the route answers 200
GetResultsCounted ==
    /\ Yielded
    /\ qpc = "count"
    /\ LET total == Len(ResultsOf(qreq.id))
       IN qres' = [qres EXCEPT !.total = total,
                               !.pages = Ceil(total, qreq.limit),
                               !.status = 200]
    /\ qpc' = "done"
    /\ UNCHANGED <<sres, second, qreq, job, results,
                   activeCrawlers, spc, engineVars, cancelVars, histVars>>

(***************************************************************************)
(* Specification                                                           *)
(***************************************************************************)
Next ==
    \/ \E u \in SeedUrls, d \in 0..MaxReqDepth, m \in 0..MaxReqPages :
         PostJobs(u, d, m)
    \/ StartFound
    \/ StartSaved
    \/ LaunchDone
    \/ SkipVisited
    \/ Dequeue
    \/ FetchDone
    \/ SaveResultDone
    \/ PageCloseDone
    \/ ProgressDone
    \/ LoopExit
    \/ CloseBrowserDone
    \/ CountDone
    \/ SaveFinalDone
    \/ \E c \in Cancels : CancelRequest(c)
    \/ \E c \in Cancels : CancelFound(c)
    \/ \E c \in Cancels : CancelSaved(c)
    \/ \E c \in Cancels : StopClosed(c)

\* The service with MongoDB and puppeteer.launch answering without error
Spec == Init /\ [][Next]_vars

(***************************************************************************)
(* Failures of puppeteer.launch and of the writes to the job document      *)
(***************************************************************************)
\* the catch block of Crawler.start up to `await this.job.save()`
StartCatch ==
    /\ docStatus' = "failed"
    /\ spc' = "saveFailed"

\* puppeteer.launch rejected
LaunchFailed ==
    /\ spc = "launch"
    /\ StartCatch
    /\ UNCHANGED <<sres, sideVars, job, results, activeCrawlers, docResultCount,
                   running, browser, visitedUrls, queue, pagesProcessed,
                   pagesSuccessful, pagesFailed, cur, curOk, page,
                   cancelVars, histVars>>

\* updateProgress rejected: line 337 stands outside the try of the loop
\* body, so processQueue rejects into the catch block of start()
ProgressFailed ==
    /\ spc = "progress"
    /\ StartCatch
    /\ UNCHANGED <<sres, sideVars, job, results, activeCrawlers, docResultCount,
                   running, browser, visitedUrls, queue, pagesProcessed,
                   pagesSuccessful, pagesFailed, cur, curOk, page,
                   cancelVars, histVars>>

\* the save of the failed status resolved: `if (this.browser) await
\* this.browser.close()`, else start() and startCrawlJob return
FailedSaved ==
    /\ spc = "saveFailed"
    /\ job' = [job EXCEPT !.status = docStatus, !.error = "message"]
    /\ IF browser # "null"
          THEN /\ browser' = "closed"
               /\ spc' = "closeAfterFail"
               /\ UNCHANGED sres
          ELSE /\ spc' = "done"
               /\ sres' = "undefined"
               /\ UNCHANGED browser
    /\ UNCHANGED <<sideVars, results, activeCrawlers, docStatus, docResultCount,
                   running, visitedUrls, queue, pagesProcessed,
                   pagesSuccessful, pagesFailed, cur, curOk, page,
                   cancelVars, histVars>>

\* browser.close() of the catch block resolved; start() and startCrawlJob
\* return
CloseAfterFailDone ==
    /\ spc = "closeAfterFail"
    /\ spc' = "done"
    /\ sres' = "undefined"
    /\ UNCHANGED <<sideVars, job, results, activeCrawlers, engineVars, cancelVars,
                   histVars>>

\* the save of the failed status rejected: start() rejects before its
\* browser.close(), and the catch block of startCrawlJob awaits findById
FailedSaveRejected ==
    /\ spc = "saveFailed"
    /\ spc' = "catchFind"
    /\ UNCHANGED <<sres, sideVars, job, results, activeCrawlers, engineVars,
                   cancelVars, histVars>>

\* findById of the catch block resolved: job.status = 'failed' on the
\* fresh document and `await job.save()`
CatchFound ==
    /\ spc = "catchFind"
    /\ spc' = "catchSave"
    /\ UNCHANGED <<sres, sideVars, job, results, activeCrawlers, engineVars,
                   cancelVars, histVars>>

\* the save of the catch block resolved; startCrawlJob returns
CatchSaved ==
    /\ spc = "catchSave"
    /\ job' = [job EXCEPT !.status = "failed", !.error = "message"]
    /\ spc' = "done"
    /\ sres' = "undefined"
    /\ UNCHANGED <<sideVars, results, activeCrawlers, engineVars, cancelVars,
                   histVars>>

NextF ==
    \/ Next
    \/ LaunchFailed
    \/ ProgressFailed
    \/ FailedSaved
    \/ CloseAfterFailDone
    \/ FailedSaveRejected
    \/ CatchFound
    \/ CatchSaved

\* The service with puppeteer.launch, updateProgress and the save of the
\* failed status free to reject
SpecF == Init /\ [][NextF]_vars

\* The steps of startCrawlJob and of its engine
EngineStep ==
    \/ StartFound
    \/ StartSaved
    \/ LaunchDone
    \/ SkipVisited
    \/ Dequeue
    \/ FetchDone
    \/ SaveResultDone
    \/ PageCloseDone
    \/ ProgressDone
    \/ LoopExit
    \/ CloseBrowserDone
    \/ CountDone
    \/ SaveFinalDone

\* Spec with every pending continuation of the engine run by the event
\* loop once the awaited operation has returned
FairSpec == Spec /\ WF_vars(EngineStep)

(***************************************************************************)
(* Every awaited call of startCrawlJob and stopCrawlJob may reject          *)
(***************************************************************************)
\* the first findById rejected: the catch block of startCrawlJob
FindRejected ==
    /\ spc = "find"
    /\ spc' = "catchFind"
    /\ UNCHANGED <<sres, sideVars, job, results, activeCrawlers,
                   engineVars, cancelVars, histVars>>

\* the save of status running rejected: no engine is constructed
SaveRunningRejected ==
    /\ spc = "saveRunning"
    /\ spc' = "catchFind"
    /\ UNCHANGED <<sres, sideVars, job, results, activeCrawlers,
                   engineVars, cancelVars, histVars>>

\* browser.close(), countDocuments or the final save of start() rejected
FinishRejected ==
    /\ spc \in {"closeBrowser", "count", "saveFinal"}
    /\ StartCatch
    /\ UNCHANGED <<sres, sideVars, job, results, activeCrawlers,
                   docResultCount, running, browser, visitedUrls, queue,
                   pagesProcessed, pagesSuccessful, pagesFailed, cur, curOk,
                   page, cancelVars, histVars>>

\* result.save() rejected: the catch block of processUrl awaits
\* errorResult.save(); errorResult.save() rejected: the finally block
SaveResultRejected ==
    /\ spc = "saveResult"
    /\ IF curOk
          THEN /\ curOk' = FALSE
               /\ UNCHANGED <<spc, queue, pagesSuccessful, pagesFailed>>
          ELSE /\ UNCHANGED curOk
               /\ IF page
                     THEN /\ spc' = "pageClose"
                          /\ UNCHANGED <<queue, pagesSuccessful, pagesFailed>>
                     ELSE AfterProcessUrl(FALSE)
    /\ UNCHANGED <<sres, sideVars, job, results, activeCrawlers,
                   docStatus, docResultCount, running, browser, visitedUrls,
                   pagesProcessed, cur, page, cancelVars, histVars>>

\* browser.close() of the catch block of start() rejected: start() rejects
CloseAfterFailRejected ==
    /\ spc = "closeAfterFail"
    /\ spc' = "catchFind"
    /\ UNCHANGED <<sres, sideVars, job, results, activeCrawlers,
                   engineVars, cancelVars, histVars>>

\* variant: no inner try/catch around the update of the catch block
CatchRejectedUncaught ==
    /\ spc \in {"catchFind", "catchSave"}
    /\ spc' = "done"
    /\ sres' = "rejected"
    /\ UNCHANGED <<sideVars, job, results, activeCrawlers,
                   engineVars, cancelVars, histVars>>

\* findById or save of the catch block rejected: caught and logged,
\* startCrawlJob returns
CatchRejected ==
    /\ spc \in {"catchFind", "catchSave"}
    /\ spc' = "done"
    /\ sres' = "undefined"
    /\ UNCHANGED <<sideVars, job, results, activeCrawlers,
                   engineVars, cancelVars, histVars>>

\* the browser.close() of stop() rejected: caught and logged by
\* stopCrawlJob, the delete is skipped
StopCloseRejected(c) ==
    /\ Yielded
    /\ cpc[c] = "stopping"
    /\ cpc' = [cpc EXCEPT ![c] = "done"]
    /\ stopLog' = [stopLog EXCEPT ![c] = "error"]
    /\ UNCHANGED <<sres, sideVars, job, results, activeCrawlers,
                   spc, engineVars, cresp, histVars>>

\* One cancel request is enough to call stopCrawlJob with and without an
\* engine
SingleCancel == {c \in Cancels : c = 1}

NextR ==
    \/ \E u \in SeedUrls, d \in 0..MaxReqDepth, m \in 0..MaxReqPages :
         PostJobs(u, d, m)
    \/ EngineStep
    \/ LaunchFailed
    \/ ProgressFailed
    \/ FailedSaved
    \/ CloseAfterFailDone
    \/ FailedSaveRejected
    \/ CatchFound
    \/ CatchSaved
    \/ FindRejected
    \/ SaveRunningRejected
    \/ FinishRejected
    \/ SaveResultRejected
    \/ CloseAfterFailRejected
    \/ CatchRejected
    \/ \E c \in SingleCancel : CancelRequest(c)
    \/ \E c \in SingleCancel : CancelFound(c)
    \/ \E c \in SingleCancel : CancelSaved(c)
    \/ \E c \in SingleCancel : StopClosed(c)
    \/ \E c \in SingleCancel : StopCloseRejected(c)

\* The service with every awaited call of startCrawlJob, of the engine and
\* of stopCrawlJob free to reject, and one cancel request
SpecR == Init /\ [][NextR]_vars

(***************************************************************************)
(* A second call of startCrawlJob for the same job                         *)
(***************************************************************************)
\* the entries of the head of a queue that `continue` drops
RECURSIVE AfterSkips(_, _)
AfterSkips(q, visited) ==
    IF q # <<>> /\ Head(q).url \in visited
       THEN AfterSkips(Tail(q), visited)
       ELSE q

\* processQueue of the engine e from its while condition to its next
\* await: the first await of processUrl, or browser.close() of start()
LoopToAwait(e) ==
    LET q == IF e.running /\ e.pagesProcessed < job.maxPages
                THEN AfterSkips(e.queue, e.visitedUrls)
                ELSE e.queue
    IN IF q # <<>> /\ e.running /\ e.pagesProcessed < job.maxPages
          THEN [e EXCEPT !.queue = Tail(q),
                         !.cur = Head(q),
                         !.visitedUrls = e.visitedUrls \cup {Head(q).url},
                         !.pagesProcessed = e.pagesProcessed + 1,
                         !.curOk = FALSE,
                         !.pc = "fetch"]
          ELSE [e EXCEPT !.queue = q,
                         !.browser = "closed",
                         !.pc = "closeBrowser"]

\* the entries the loop of e pushes for the links of a successful page
RECURSIVE PushedBy(_, _, _, _)
PushedBy(links, depth, url, visited) ==
    IF links = <<>> THEN <<>>
    ELSE LET l == Head(links)
             rest == PushedBy(Tail(links), depth, url, visited)
         IN IF l.isInternal /\ l.url \notin visited
               THEN <<Entry(l.url, depth + 1, url)>> \o rest
               ELSE rest

\* startCrawlJob is called again: `await CrawlJob.findById`
StartAgain ==
    /\ Yielded
    /\ job.status # "none"
    /\ second.pc = "idle"
    /\ second' = [second EXCEPT !.pc = "find"]
    /\ UNCHANGED <<sres, qpc, qreq, qres, job, results,
                   activeCrawlers, spc, engineVars, cancelVars, histVars>>

\* findById resolved: return, or job.status = 'running' and save
SecondFound ==
    /\ Yielded
    /\ second.pc = "find"
    /\ second' = IF job.status # "pending"
                    THEN [second EXCEPT !.pc = "done"]
                    ELSE [second EXCEPT !.pc = "saveRunning",
                                        !.docStatus = "running"]
    /\ UNCHANGED <<sres, qpc, qreq, qres, job, results,
                   activeCrawlers, spc, engineVars, cancelVars, histVars>>

\* job.save() resolved: a second Crawler takes the key of the job in
\* activeCrawlers and start() runs to `await puppeteer.launch`
SecondSaved ==
    /\ Yielded
    /\ second.pc = "saveRunning"
    /\ job' = [job EXCEPT !.status = second.docStatus]
    /\ activeCrawlers' = activeCrawlers \cup {JobId}
    /\ second' = [second EXCEPT !.running = TRUE, !.pc = "launch"]
    /\ UNCHANGED <<sres, qpc, qreq, qres, results, spc,
                   engineVars, cancelVars, histVars>>

\* puppeteer.launch resolved: the seed is queued, processQueue runs to the
\* first await of processUrl
SecondLaunchDone ==
    /\ Yielded
    /\ second.pc = "launch"
    /\ second' = LoopToAwait([second EXCEPT
                     !.browser = "open",
                     !.queue = <<Entry(job.url, 0, "null")>>])
    /\ UNCHANGED <<sres, qpc, qreq, qres, job, results,
                   activeCrawlers, spc, engineVars, cancelVars, histVars>>

\* the browser calls of processUrl are over
SecondFetchDone ==
    /\ Yielded
    /\ second.pc = "fetch"
    /\ second' = [second EXCEPT !.curOk = PageSucceeds(second.cur.url),
                                !.pc = "saveResult"]
    /\ UNCHANGED <<sres, qpc, qreq, qres, job, results,
                   activeCrawlers, spc, engineVars, cancelVars, histVars>>

\* result.save() / errorResult.save() resolved: `await page.close()`
SecondSaveResultDone ==
    /\ Yielded
    /\ second.pc = "saveResult"
    /\ results' = Append(results, Result(second.cur, second.curOk))
    /\ second' = [second EXCEPT !.pc = "pageClose"]
    /\ UNCHANGED <<sres, qpc, qreq, qres, job, activeCrawlers,
                   spc, engineVars, cancelVars, histVars>>

\* page.close() resolved: the counters, the links, `await updateProgress`
SecondPageCloseDone ==
    /\ Yielded
    /\ second.pc = "pageClose"
    /\ second' =
          IF second.curOk
             THEN [second EXCEPT
                     !.pagesSuccessful = second.pagesSuccessful + 1,
                     !.queue =
                        IF second.cur.depth < job.depth
                           THEN second.queue \o
                                PushedBy(Links(second.cur.url),
                                         second.cur.depth, second.cur.url,
                                         second.visitedUrls)
                           ELSE second.queue,
                     !.pc = "progress"]
             ELSE [second EXCEPT !.pagesFailed = second.pagesFailed + 1,
                                 !.pc = "progress"]
    /\ UNCHANGED <<sres, qpc, qreq, qres, job, results,
                   activeCrawlers, spc, engineVars, cancelVars, histVars>>

\* updateProgress resolved: the loop runs to its next await
SecondProgressDone ==
    /\ Yielded
    /\ second.pc = "progress"
    /\ job' = UpdateProgress(job, second.pagesProcessed,
                             second.pagesSuccessful, second.pagesFailed)
    /\ second' = LoopToAwait(second)
    /\ UNCHANGED <<sres, qpc, qreq, qres, results,
                   activeCrawlers, spc, engineVars, cancelVars, histVars>>

\* browser.close() resolved: the status is chosen, countDocuments awaited
SecondCloseBrowserDone ==
    /\ Yielded
    /\ second.pc = "closeBrowser"
    /\ second' = [second EXCEPT
                     !.docStatus = IF second.running THEN "completed"
                                   ELSE "cancelled",
                     !.pc = "count"]
    /\ UNCHANGED <<sres, qpc, qreq, qres, job, results,
                   activeCrawlers, spc, engineVars, cancelVars, histVars>>

\* countDocuments resolved: `await this.job.save()`
SecondCountDone ==
    /\ Yielded
    /\ second.pc = "count"
    /\ second' = [second EXCEPT !.docResultCount = Len(results),
                                !.pc = "saveFinal"]
    /\ UNCHANGED <<sres, qpc, qreq, qres, job, results,
                   activeCrawlers, spc, engineVars, cancelVars, histVars>>

\* the final save resolved; the second startCrawlJob returns
SecondSaveFinalDone ==
    /\ Yielded
    /\ second.pc = "saveFinal"
    /\ job' = [job EXCEPT !.status = second.docStatus,
                          !.resultCount = second.docResultCount]
    /\ second' = [second EXCEPT !.pc = "done"]
    /\ UNCHANGED <<sres, qpc, qreq, qres, results,
                   activeCrawlers, spc, engineVars, cancelVars, histVars>>

\* A job and two calls of startCrawlJob for it
NextD ==
    \/ \E u \in SeedUrls, d \in 0..MaxReqDepth, m \in 0..MaxReqPages :
         PostJobs(u, d, m)
    \/ EngineStep
    \/ StartAgain
    \/ SecondFound
    \/ SecondSaved
    \/ SecondLaunchDone
    \/ SecondFetchDone
    \/ SecondSaveResultDone
    \/ SecondPageCloseDone
    \/ SecondProgressDone
    \/ SecondCloseBrowserDone
    \/ SecondCountDone
    \/ SecondSaveFinalDone

SpecD == Init /\ [][NextD]_vars

\* The service when every job is requested with depth 0
NextZ ==
    \/ \E u \in SeedUrls, m \in 0..MaxReqPages : PostJobs(u, 0, m)
    \/ EngineStep
    \/ \E c \in Cancels : CancelRequest(c)
    \/ \E c \in Cancels : CancelFound(c)
    \/ \E c \in Cancels : CancelSaved(c)
    \/ \E c \in Cancels : StopClosed(c)

SpecZ == Init /\ [][NextZ]_vars

\* A job, its engine and one request for its results
NextQ ==
    \/ \E u \in SeedUrls, d \in 0..MaxReqDepth, m \in 0..MaxReqPages :
         PostJobs(u, d, m)
    \/ EngineStep
    \/ \E id \in {JobId, UnknownId}, pg \in 1..MaxQueryPage,
          limit \in 1..MaxQueryLimit : GetResultsRequest(id, pg, limit)
    \/ GetResultsJobFound
    \/ GetResultsFound
    \/ GetResultsCounted

SpecQ == Init /\ [][NextQ]_vars

(***************************************************************************)
(* Properties                                                              *)
(***************************************************************************)
Range(seq) == {seq[i] : i \in 1..Len(seq)}

\* C1: Terminal exclusivity.  Once the stored status of the job is one of
\* completed, failed, cancelled, no later write changes it.
TerminalExclusivity ==
    [][job.status \in Terminal => job'.status = job.status]_vars

\* C2: Page-limit bound.  In every state pagesProcessed <= maxPages and the
\* number of stored CrawlResults of the job is <= maxPages.
PageLimitBound ==
    job.status # "none" =>
        /\ pagesProcessed <= job.maxPages
        /\ Len(results) <= job.maxPages

\* C2 witness: the loop has ended on the page limit with entries still queued
PageLimitReached ==
    /\ spc = "closeBrowser"
    /\ running
    /\ Len(queue) > 0
    /\ pagesProcessed = job.maxPages
    /\ Len(results) = job.maxPages

\* C3: Depth bound.  Every entry placed on the queue and every stored
\* CrawlResult has depth <= job.depth, and an entry of depth d+1 was pushed
\* for a stored successful page of depth d < job.depth.
DepthBound ==
    /\ \A e \in Range(queue) \cup Range(dequeued) : e.depth <= job.depth
    /\ \A r \in Range(results) : r.depth <= job.depth
    /\ \A e \in Range(queue) :
         e.depth > 0 =>
            \E r \in Range(results) :
               /\ r.url = e.parentUrl
               /\ r.ok
               /\ r.depth + 1 = e.depth
               /\ r.depth < job.depth

\* C3 witness: a successful page with links was stored at depth job.depth
\* and the job is over
DepthLimitHit ==
    /\ spc = "done"
    /\ \E r \in Range(results) :
         r.ok /\ r.depth = job.depth /\ Links(r.url) # <<>>

\* C4: Dedup invariant.  No URL is the url of two stored CrawlResults, and
\* the iteration that dequeues an already visited URL only removes the entry:
\* no fetch, no CrawlResult, no counter changes.
NoDuplicateUrl ==
    \A i, j \in 1..Len(results) : results[i].url = results[j].url => i = j

DropsVisited ==
    (spc = "loop" /\ LoopCondition /\ Head(queue).url \in visitedUrls) =>
        /\ queue' = Tail(queue)
        /\ spc' = "loop"
        /\ UNCHANGED <<results, pagesProcessed, pagesSuccessful, pagesFailed,
                       visitedUrls, cur, dequeued, job>>

DedupInvariant == []NoDuplicateUrl /\ [][DropsVisited]_vars

\* C4 witness: an entry was dropped and the job went on to its end
DroppedDuplicate ==
    /\ spc = "done"
    /\ dropped >= 2
    /\ Len(results) = Cardinality(visitedUrls)

\* C5: FIFO/BFS ordering.  The stored results follow the order of the
\* dequeues, every dequeue takes the head of the queue, and the depths of
\* the stored results never decrease.
ResultsInDequeueOrder ==
    /\ Len(results) <= Len(dequeued)
    /\ Len(dequeued) <= Len(results) + 1
    /\ \A i \in 1..Len(results) :
         /\ results[i].url = dequeued[i].url
         /\ results[i].depth = dequeued[i].depth

DepthsNonDecreasing ==
    \A i, j \in 1..Len(results) :
        i < j => results[i].depth <= results[j].depth

ServesHead ==
    Len(dequeued') > Len(dequeued) =>
        /\ dequeued' = Append(dequeued, Head(queue))
        /\ queue' = Tail(queue)

FifoBfsOrdering ==
    [](ResultsInDequeueOrder /\ DepthsNonDecreasing) /\ [][ServesHead]_vars

\* C5 witness: results of the depths 0, 1 and 2 are stored
ThreeLevelsStored ==
    /\ spc = "done"
    /\ Len(results) = 5
    /\ results[1].depth = 0
    /\ results[2].depth = 1
    /\ results[4].depth = 2

\* C6: Cancellation of a running job ends in cancelled.  When stop() ran
\* before start() chose the final status, the status stored when start() has
\* returned is cancelled.
EarlyPcs == {"launch", "fetch", "saveResult", "pageClose", "progress",
             "closeBrowser"}

CancelEndsCancelled ==
    (spc = "done" /\ stopPc \in EarlyPcs) => job.status = "cancelled"

\* C6 witness: stop() closed the browser during a page fetch, start() has
\* returned and the stored status is cancelled
CancelledDuringFetch ==
    /\ spc = "done"
    /\ stopPc = "fetch"
    /\ Len(results) = stopAt + 1
    /\ job.status = "cancelled"

\* C7: No new page after stop.  After stop() no queue entry is dequeued, and
\* at most one CrawlResult (the fetch in flight) is stored after it.
NoDequeueAfterStop ==
    stopAt >= 0 =>
        /\ dequeued' = dequeued
        /\ pagesProcessed' = pagesProcessed
        /\ Len(queue') >= Len(queue)

AtMostOneAfterStop == stopAt >= 0 => Len(results) <= stopAt + 1

NoNewPageAfterStop == []AtMostOneAfterStop /\ [][NoDequeueAfterStop]_vars

\* C7 witness: stop() during the first fetch of a job; start() has
\* returned with exactly one CrawlResult and entries left in the queue
StoppedInFirstFetch ==
    /\ spc = "done"
    /\ stopPc = "fetch"
    /\ stopAt = 0
    /\ Len(results) = 1
    /\ Len(queue) > 0

\* C8: No hard abort of an in-flight fetch.  Every stored CrawlResult has
\* the outcome the page itself gives, whether or not stop() was called
\* during its fetch.
NoHardAbort == \A r \in Range(results) : r.ok = PageSucceeds(r.url)

\* C9: Cancellation no-op safety.  stopCrawlJob for a job without a live
\* engine does not reject, stores no CrawlResult and leaves the
\* live-engine map (and the engine) as they are.
StopWithoutEngine(c) ==
    (cpc[c] = "save" /\ cpc'[c] # "save" /\ JobId \notin activeCrawlers) =>
        /\ stopLog'[c] = "noop"
        /\ results' = results
        /\ activeCrawlers' = activeCrawlers
        /\ running' = running
        /\ browser' = browser

CancelNoOpSafety == [][\A c \in Cancels : StopWithoutEngine(c)]_vars

\* C9 witness: one cancel stopped and unregistered the engine, another one
\* found no engine
CancelFoundNoEngine ==
    \E c, d \in Cancels :
        /\ stopLog[c] = "stopped"
        /\ cpc[c] = "done"
        /\ stopLog[d] = "noop"

\* C10: Per-page failure is not job failure.  A failed fetch stores exactly
\* one failed CrawlResult, adds one to pagesFailed, leaves the queue and the
\* running flag alone, and a job that was never cancelled ends completed.
FailedPageRecorded ==
    (spc = "saveResult" /\ ~curOk /\ spc' # "saveResult") =>
        results' = Append(results, Result(cur, FALSE))

FailedPageCounted ==
    (spc \in {"saveResult", "pageClose"} /\ ~curOk /\ spc' = "progress") =>
        /\ pagesFailed' = pagesFailed + 1
        /\ pagesSuccessful' = pagesSuccessful
        /\ queue' = queue
        /\ running' = running

NeverCancelled == \A c \in Cancels : cpc[c] # "save" /\ cresp[c] # 200

OneFailedResult ==
    (spc = "progress" /\ ~curOk) =>
        /\ Cardinality({i \in 1..Len(results) : results[i].url = cur.url}) = 1
        /\ results[Len(results)] = Result(cur, FALSE)

EndsCompleted ==
    (spc = "done" /\ docStatus \in Terminal /\ NeverCancelled) =>
        /\ job.status = "completed"
        /\ job.failed = pagesFailed
        /\ ~PageSucceeds(job.url) =>
             /\ Len(results) = 1
             /\ ~results[1].ok
             /\ job.failed = 1
             /\ job.successful = 0

PageFailureIsNotJobFailure ==
    /\ [](OneFailedResult /\ EndsCompleted)
    /\ [][FailedPageRecorded /\ FailedPageCounted]_vars

\* C10 witness: a page failed, a later page succeeded and the job is completed
CompletedWithFailedPage ==
    /\ spc = "done"
    /\ job.status = "completed"
    /\ job.failed = 2
    /\ Len(results) = 5
    /\ ~results[3].ok
    /\ results[4].ok

\* C11: Best-effort progress persistence.  However updateProgress
\* settles, the loop goes back to its while condition and start() does not
\* choose the status failed.
ProgressIsBestEffort ==
    [][(spc = "progress" /\ spc' # "progress") =>
           (spc' = "loop" /\ docStatus' # "failed")]_vars

\* C12: Fatal error handling.  When start() ended through its catch block
\* and startCrawlJob returns, the stored status is failed with the message
\* and no launched browser is left open.
FatalErrorHandled ==
    [][(spc # "done" /\ spc' = "done" /\ docStatus' = "failed") =>
           /\ job'.status = "failed"
           /\ job'.error # ""
           /\ browser' # "open"]_vars

\* C13: Natural completion.  Without stop() and without a fatal error the
\* loop ends only on an empty queue or on the page limit and the stored
\* status is completed; maxPages = 1 on a seed with internal links stores
\* one CrawlResult and leaves the other entries in the queue.
NaturalLoopExit ==
    (spc = "loop" /\ spc' = "closeBrowser" /\ stopAt = -1) =>
        (Len(queue) = 0 \/ pagesProcessed >= job.maxPages)

EndsCompletedNaturally ==
    (spc = "done" /\ stopAt = -1 /\ docStatus \in {"completed", "cancelled"})
        => /\ docStatus = "completed"
           /\ job.status = "completed"
           /\ (job.maxPages = 1 /\ job.url = "a") =>
                 /\ Len(results) = 1
                 /\ Len(queue) = 3

NaturalCompletion == []EndsCompletedNaturally /\ [][NaturalLoopExit]_vars

\* C13 witness: maxPages = 1, the seed has internal links, the job is completed
CompletedOnPageLimit ==
    /\ spc = "done"
    /\ stopAt = -1
    /\ job.maxPages = 1
    /\ job.url = "a"
    /\ job.status = "completed"
    /\ Len(results) = 1
    /\ Len(queue) = 3

\* C14: Start on a non-pending job is a no-op.  startCrawlJob on a job whose
\* stored status is not pending leaves the job record, the live-engine map,
\* the browser and the CrawlResults as they are.
StartRefused ==
    (spc = "find" /\ job.status # "pending" /\ spc' # "find") =>
        /\ spc' = "done"
        /\ job' = job
        /\ activeCrawlers' = activeCrawlers
        /\ browser' = browser
        /\ running' = running
        /\ results' = results
        /\ queue' = queue

StartNonPendingNoOp ==
    [](spc = "done" /\ docStatus = "none" =>
          /\ browser = "null"
          /\ results = <<>>
          /\ activeCrawlers = {})
    /\ [][StartRefused]_vars

\* C14 witness: startCrawlJob found the job cancelled and returned
StartFoundCancelled ==
    /\ spc = "done"
    /\ docStatus = "none"
    /\ job.status = "cancelled"
    /\ browser = "null"

\* C15 as stated: startCrawlJob on a job that is not pending settles with
\* the typed error InvalidState.
NonPendingGivesInvalidState ==
    [][(spc = "find" /\ job.status # "pending" /\ spc' # "find") =>
           sres' = "InvalidState"]_vars

\* C15, amended: startCrawlJob on a job that is not pending resolves without
\* a value, as every call of startCrawlJob does; no typed error reaches the
\* caller.
NonPendingResolves ==
    [](spc = "done" => sres = "undefined")
    /\ [][(spc = "find" /\ job.status # "pending" /\ spc' # "find") =>
             sres' = "undefined"]_vars

\* C15 witness: a refused start and its settled promise
RefusedStartResolved ==
    /\ spc = "done"
    /\ docStatus = "none"
    /\ job.status = "cancelled"
    /\ sres = "undefined"
    /\ \A c \in Cancels : cpc[c] = "done"

\* C16: Live-engine map holds only running engines.  When startCrawlJob has
\* returned and every cancel request is over, the job has no entry in
\* activeCrawlers.
MapHoldsOnlyRunning ==
    (spc = "done" /\ \A c \in Cancels : cpc[c] = "done") =>
        JobId \notin activeCrawlers

\* C17: Exactly one CrawlResult per attempt.  Outside processUrl the number
\* of stored CrawlResults equals pagesProcessed; inside it one is missing
\* until the save.
OneResultPerAttempt ==
    /\ spc \notin {"fetch", "saveResult"} => Len(results) = pagesProcessed
    /\ spc \in {"fetch", "saveResult"} => Len(results) + 1 = pagesProcessed

\* C17 witness: successful and failed attempts, each with its result
FiveAttemptsFiveResults ==
    /\ spc = "progress"
    /\ pagesProcessed = 5
    /\ pagesSuccessful = 3
    /\ pagesFailed = 2
    /\ Len(results) = 5

\* C18: Only internal links are followed.  Every queue entry and every
\* CrawlResult below the seed comes from a link with isInternal = true of a
\* stored successful page, and the external URL is never queued or fetched.
FromInternalLink(e) ==
    \E r \in Range(results) :
        /\ r.ok
        /\ r.url = e.parentUrl
        /\ \E l \in Range(Links(r.url)) : l.url = e.url /\ l.isInternal

ExternalUrls ==
    {l.url : l \in {k \in UNION {Range(Links(u)) : u \in {"a", "b"}} :
                       ~k.isInternal}}

OnlyInternalFollowed ==
    /\ \A e \in Range(queue) \cup Range(dequeued) :
         e.depth > 0 => FromInternalLink(e)
    /\ \A r \in Range(results) :
         IF r.depth = 0 THEN r.url = job.url ELSE FromInternalLink(r)
    /\ \A e \in Range(queue) \cup Range(dequeued) : e.url \notin ExternalUrls
    /\ visitedUrls \cap ExternalUrls = {}

\* C18 witness: the page with the external link was expanded and the whole
\* site crawled
CrawledWithoutExternal ==
    /\ spc = "done"
    /\ Cardinality(visitedUrls) = 5
    /\ results[1].ok
    /\ \E l \in Range(Links(results[1].url)) : ~l.isInternal

\* C19: Every started job terminates.  Once the stored status is running,
\* startCrawlJob eventually returns with a terminal status stored; every
\* iteration of the loop removes one queue entry.
LoopRemovesEntry ==
    (spc = "loop" /\ spc' \in {"loop", "fetch"}) =>
        Len(queue') + 1 = Len(queue)

JobRecordOwned ==
    [][/\ job.status \in Terminal => job' = job
       /\ (job.status = "running" /\ job' # job) => cpc' = cpc]_vars

\* C22: Final result count.  Whenever the stored status is completed or
\* cancelled, the stored resultCount is the number of CrawlResults of the
\* job, so no CrawlResult is stored after that status without the count
\* following.
FinalResultCount ==
    job.status \in {"completed", "cancelled"} =>
        job.resultCount = Len(results)

\* C23: Max depth 0 means seed page only.  A job requested with depth 0
\* (every job of SpecZ) stores a CrawlResult for the seed URL only, and no
\* link of the seed is queued or fetched.
DepthZeroSeedOnly ==
    job.status # "none" =>
        /\ \A r \in Range(results) : r.url = job.url /\ r.depth = 0
        /\ \A e \in Range(queue) \cup Range(dequeued) : e.depth = 0
        /\ visitedUrls \subseteq {job.url}

\* C24: resultsPage pagination.  For a known job, page >= 1 and limit >= 1
\* the results read are those at the positions (page-1)*limit ..
\* page*limit-1 of the job's results taken newest first, at most limit of
\* them and without the html field; total is the number of results of the
\* job and pages is ceil(total / limit).
PageRead ==
    (qpc = "find" /\ qpc' = "count") =>
        LET n == Len(results)
            first == (qreq.page - 1) * qreq.limit
            got == qres'.results
        IN /\ Len(got) <= qreq.limit
           /\ Len(got) = IF n - first > qreq.limit THEN qreq.limit
                         ELSE IF n - first > 0 THEN n - first ELSE 0
           /\ \A k \in 1..Len(got) :
                /\ "html" \notin DOMAIN got[k]
                /\ \A f \in DOMAIN got[k] :
                     got[k][f] = results[n - (first + k - 1)][f]
                /\ DOMAIN got[k] \cup {"html"}
                     = DOMAIN results[n - (first + k - 1)]

TotalRead ==
    (qpc = "count" /\ qpc' = "done") =>
        /\ qres'.status = 200
        /\ qres'.results = qres.results
        /\ qres'.total = Len(results)
        /\ qres'.pages * qreq.limit >= qres'.total
        /\ (qres'.pages - 1) * qreq.limit < qres'.total \/ qres'.pages = 0

ResultsPagePagination == [][PageRead /\ TotalRead]_vars

\* C24 witness: the last page of five results, two to a page
LastPageAnswered ==
    /\ qpc = "done"
    /\ qres.status = 200
    /\ qreq.page = 3
    /\ qreq.limit = 2
    /\ qres.total = 5
    /\ qres.pages = 3
    /\ Len(qres.results) = 1
    /\ qres.results[1].url = job.url

\* C25: resultsPage for an unknown job.  A request for a job id that
\* CrawlJob.findById does not find is answered 404 without results; a 200
\* answer is given for a stored job only.
UnknownAnswered ==
    (qpc = "findJob" /\ qpc' # "findJob"
        /\ (qreq.id # JobId \/ job.status = "none")) =>
        /\ qpc' = "done"
        /\ qres'.status = 404
        /\ qres'.results = <<>>

UnknownJobNotFound ==
    /\ [](qres.status = 200 => (qreq.id = JobId /\ job.status # "none"))
    /\ []((qpc = "done" /\ qreq.id = UnknownId) =>
              (qres.status = 404 /\ qres.results = <<>>))
    /\ [][UnknownAnswered]_vars

\* C25 witness: 404 for the unknown id while the stored job has results
UnknownIdRefused ==
    /\ qpc = "done"
    /\ qreq.id = UnknownId
    /\ qres.status = 404
    /\ Len(results) > 0

\* C26: A successful cancel request is effective.  Once a cancel request has
\* been answered 200, at most one more CrawlResult is stored (the count at
\* the answer is 0 when no engine was registered yet, and at most the count
\* at the first stop() otherwise), and when startCrawlJob and the cancel
\* requests are over the stored status is cancelled.
CancelIsEffective ==
    (\E c \in Cancels : cresp[c] = 200) =>
        /\ Len(results) <= (IF stopAt = -1 THEN 0 ELSE stopAt) + 1
        /\ (spc = "done" /\ \A c \in Cancels : cpc[c] = "done") =>
               job.status = "cancelled"

\* C27: Counter consistency.  Where progress is written, pagesProcessed =
\* pagesSuccessful + pagesFailed, the iteration has added one to exactly one
\* of the two, and they are the numbers of successful and of failed
\* CrawlResults.
CountersAtProgress ==
    spc = "progress" =>
        /\ pagesProcessed = pagesSuccessful + pagesFailed
        /\ pagesSuccessful
             = Cardinality({i \in 1..Len(results) : results[i].ok})
        /\ pagesFailed
             = Cardinality({i \in 1..Len(results) : ~results[i].ok})

OneCounterPerPage ==
    (spc # "progress" /\ spc' = "progress") =>
        \/ /\ pagesSuccessful' = pagesSuccessful + 1
           /\ pagesFailed' = pagesFailed
        \/ /\ pagesSuccessful' = pagesSuccessful
           /\ pagesFailed' = pagesFailed + 1

CounterConsistency == []CountersAtProgress /\ [][OneCounterPerPage]_vars

\* C28: Parent linkage.  The first CrawlResult is the seed's, with depth 0
\* and parentUrl null; every CrawlResult of depth d >= 1 names a parentUrl
\* of which a successful CrawlResult of depth d - 1 was stored before it.
ParentLinkage ==
    /\ results # <<>> =>
          /\ results[1].url = job.url
          /\ results[1].depth = 0
    /\ \A i \in 1..Len(results) :
          IF results[i].depth = 0
             THEN /\ results[i].url = job.url
                  /\ results[i].parentUrl = "null"
             ELSE \E j \in 1..(i - 1) :
                     /\ results[j].url = results[i].parentUrl
                     /\ results[j].ok
                     /\ results[j].depth + 1 = results[i].depth

\* C28 witness: results of depth 1 and 2 stored after their parents
GrandchildStored ==
    /\ spc = "done"
    /\ Len(results) = 5
    /\ results[2].parentUrl = job.url
    /\ results[4].depth = 2
    /\ results[4].parentUrl = results[2].url
    /\ ~results[3].ok

\* C29: Success criterion of a page.  A CrawlResult is stored as successful
\* only for a response with status code 200 and an html content-type, and
\* always for such a page unless a browser call of processUrl failed (which
\* needs a closed browser); every other outcome, a 204 included, is stored
\* as a failed CrawlResult with an error and without statusCode and html.
SuccessOnly200Html(r) ==
    r.ok <=> /\ r.statusCode = 200
             /\ Response(r.url).received
             /\ Response(r.url).status = 200
             /\ Response(r.url).html
             /\ r.html # ""
             /\ r.error = ""

FailedHasErrorOnly(r) ==
    ~r.ok <=> /\ r.error # ""
              /\ r.statusCode = 0
              /\ r.html = ""

SuccessCriterion ==
    /\ \A r \in Range(results) :
         /\ SuccessOnly200Html(r)
         /\ FailedHasErrorOnly(r)
         /\ stopAt = -1 =>
              (r.ok <=> /\ Response(r.url).received
                        /\ Response(r.url).status = 200
                        /\ Response(r.url).html)
    /\ \A e \in Range(queue) :
         e.depth > 0 => \E r \in Range(results) : r.url = e.parentUrl /\ r.ok

\* C29 witness: a 204 page, a non-html page and good pages, each stored
NoContentStoredFailed ==
    /\ spc = "done"
    /\ stopAt = -1
    /\ \E r \in Range(results) : Response(r.url).status = 204 /\ ~r.ok
    /\ \E r \in Range(results) : ~Response(r.url).html /\ ~r.ok
    /\ \E r \in Range(results) : r.ok /\ r.depth = 2

\* C30: startCrawlJob and stopCrawlJob never reject.  Whatever awaited call
\* fails, the promise of startCrawlJob resolves without a value and
\* stopCrawlJob ends in one of its logged branches.
NeverRejects ==
    /\ sres \in {"none", "pending", "undefined"}
    /\ spc = "done" => sres = "undefined"
    /\ \A c \in Cancels :
         /\ stopLog[c] \in {"none", "stopped", "noop", "error"}
         /\ (cpc[c] = "done" /\ cresp[c] = 200) => stopLog[c] # "none"

\* C30 witness: the failed-status write of start() and the update of the
\* catch block both rejected, and so did the browser.close() of a stop()
AllWritesRejected ==
    /\ spc = "done"
    /\ sres = "undefined"
    /\ docStatus = "failed"
    /\ job.status \notin {"failed", "completed"}
    /\ \E c \in Cancels : stopLog[c] = "error" /\ cpc[c] = "done"

\* C21: One fetch at a time per job.  At no moment are two page fetches of
\* the job in progress, and at most one engine is between the launch of its
\* browser and the end of its traversal, also when startCrawlJob is called
\* twice for the job.
Traversing == {"loop", "fetch", "saveResult", "pageClose", "progress"}

OneFetchAtATime ==
    /\ ~(spc = "fetch" /\ second.pc = "fetch")
    /\ ~(spc \in Traversing /\ second.pc \in Traversing)

====
